---- MODULE Spec2Model ----
(***************************************************************************)
(* A model of generate.py: the podcast feed generator.  One run of the     *)
(* script lists the .mp3 files of a directory, builds one episode per file *)
(* (get_episode_info, which renames, reads tags, formats the date and      *)
(* calls ensure_cover), sorts the episodes by the formatted date string    *)
(* and writes feed.xml.                                                    *)
(*                                                                         *)
(* Text is a sequence of Unicode code points, so that replace(), quote(),  *)
(* strptime(), strftime() and the string comparison of sort() are computed *)
(* the way the code computes them.                                         *)
(***************************************************************************)
EXTENDS Integers, Sequences, FiniteSets, TLC

\* ------------------------------------------------------------------ bounds
\* The number of times the script is run, one run after the other.
MaxRuns == 2
\* The number of audio files the directory holds before the first run.
MaxFiles == 2

\* ------------------------------------------------------------ text helpers
None == <<-1>>          \* Python's None (no text holds the code point -1)

RSQUO == 8217           \* the curly apostrophe of clean_apostrophes
APOS == 39              \* the straight apostrophe of clean_apostrophes
FRONT_COVER == 3        \* APIC picture type "front cover"

RECURSIVE Flatten(_)
Flatten(ss) == IF ss = <<>> THEN <<>> ELSE Head(ss) \o Flatten(Tail(ss))

\* s < t in Python's ordering of str: code point by code point, a proper
\* prefix first.
RECURSIVE StrLess(_, _)
StrLess(s, t) ==
    IF t = <<>> THEN FALSE
    ELSE IF s = <<>> THEN TRUE
    ELSE IF Head(s) # Head(t) THEN Head(s) < Head(t)
    ELSE StrLess(Tail(s), Tail(t))

IsDigit(c) == c >= 48 /\ c <= 57
IsAlpha(c) == (c >= 65 /\ c <= 90) \/ (c >= 97 /\ c <= 122)

EndsWith(s, suffix) ==
    /\ Len(s) >= Len(suffix)
    /\ SubSeq(s, Len(s) - Len(suffix) + 1, Len(s)) = suffix

\* str.lower(), on the code points the model's names hold.
Lower(s) == [i \in 1..Len(s) |-> IF s[i] >= 65 /\ s[i] <= 90 THEN s[i] + 32 ELSE s[i]]

\* Two decimal digits, zero padded (%d, %H, %M, %S) and four (%Y).
Pad2(n) == <<48 + ((n \div 10) % 10), 48 + (n % 10)>>
Pad4(n) == <<48 + ((n \div 1000) % 10), 48 + ((n \div 100) % 10)>> \o Pad2(n)

\* The value of a text of decimal digits.
RECURSIVE DigitsValue(_)
DigitsValue(s) ==
    IF s = <<>> THEN 0
    ELSE 10 * DigitsValue(SubSeq(s, 1, Len(s) - 1)) + (s[Len(s)] - 48)

AllDigits(s) == \A i \in 1..Len(s) : IsDigit(s[i])

\* ------------------------------------------------------- clean_apostrophes
clean_apostrophes_identity(text) == text

clean_apostrophes(text) ==
    [i \in 1..Len(text) |-> IF text[i] = RSQUO THEN APOS ELSE text[i]]

HasCurly(text) == \E i \in 1..Len(text) : text[i] = RSQUO

\* ------------------------------------------------------------ urllib quote
HexDigit(n) == IF n < 10 THEN 48 + n ELSE 55 + n

PctByte(b) == <<37, HexDigit(b \div 16), HexDigit(b % 16)>>

\* The UTF-8 bytes of a code point of the Basic Multilingual Plane.
Utf8(c) ==
    IF c < 128 THEN <<c>>
    ELSE IF c < 2048 THEN <<192 + (c \div 64), 128 + (c % 64)>>
    ELSE <<224 + (c \div 4096), 128 + ((c \div 64) % 64), 128 + (c % 64)>>

\* quote()'s always-safe characters and its default safe='/'.
QuoteSafe(c) == IsAlpha(c) \/ IsDigit(c) \/ c \in {95, 46, 45, 126, 47}

QuoteChar(c) ==
    IF QuoteSafe(c) THEN <<c>>
    ELSE LET bs == Utf8(c) IN Flatten([i \in 1..Len(bs) |-> PctByte(bs[i])])

quote(s) == Flatten([i \in 1..Len(s) |-> QuoteChar(s[i])])

\* --------------------------------------------------------- os.path helpers
\* os.path.splitext(name)[0]: the name up to its last dot (a dot that leads
\* the name is no extension).
RECURSIVE LastDot(_, _)
LastDot(s, i) == IF i <= 1 THEN 0 ELSE IF s[i] = 46 THEN i ELSE LastDot(s, i - 1)

splitext0(name) ==
    LET d == LastDot(name, Len(name))
    IN IF d = 0 THEN name ELSE SubSeq(name, 1, d - 1)

\* ------------------------------------------------------------- date & time
DayNames == <<
    <<77, 111, 110>>, <<84, 117, 101>>, <<87, 101, 100>>, <<84, 104, 117>>,
    <<70, 114, 105>>, <<83, 97, 116>>, <<83, 117, 110>> >>

MonthNames == <<
    <<74, 97, 110>>, <<70, 101, 98>>, <<77, 97, 114>>, <<65, 112, 114>>,
    <<77, 97, 121>>, <<74, 117, 110>>, <<74, 117, 108>>, <<65, 117, 103>>,
    <<83, 101, 112>>, <<79, 99, 116>>, <<78, 111, 118>>, <<68, 101, 99>> >>

IsLeap(y) == y % 4 = 0 /\ (y % 100 # 0 \/ y % 400 = 0)

DaysInMonth(y, m) ==
    IF m = 2 THEN (IF IsLeap(y) THEN 29 ELSE 28)
    ELSE IF m \in {4, 6, 9, 11} THEN 30 ELSE 31

RECURSIVE DaysBeforeMonth(_, _)
DaysBeforeMonth(y, m) ==
    IF m <= 1 THEN 0 ELSE DaysBeforeMonth(y, m - 1) + DaysInMonth(y, m - 1)

\* date.toordinal(): day 1 is 0001-01-01.
ToOrdinal(y, m, d) ==
    LET p == y - 1
    IN 365 * p + p \div 4 - p \div 100 + p \div 400 + DaysBeforeMonth(y, m) + d

\* date.weekday(): Monday is 0.
Weekday(y, m, d) == (ToOrdinal(y, m, d) + 6) % 7

\* The positions of the dashes of a text: '%Y-%m-%d' needs exactly two.
DashPositions(s) == {i \in 1..Len(s) : s[i] = 45}

\* %m and %d of strptime: one or two digits, not zero.
FieldOk(f, max) ==
    /\ Len(f) \in {1, 2}
    /\ AllDigits(f)
    /\ DigitsValue(f) >= 1
    /\ DigitsValue(f) <= max

\* datetime.strptime(text, '%Y-%m-%d'): the datetime (ok), or ValueError.
ValueError == [ok |-> FALSE]

strptime(text) ==
    LET ds == DashPositions(text)
    IN IF Cardinality(ds) # 2 THEN ValueError
       ELSE LET d1 == CHOOSE i \in ds : \A j \in ds : i <= j
                d2 == CHOOSE i \in ds : \A j \in ds : j <= i
                fy == SubSeq(text, 1, d1 - 1)
                fm == SubSeq(text, d1 + 1, d2 - 1)
                fd == SubSeq(text, d2 + 1, Len(text))
            IN IF /\ Len(fy) = 4
                  /\ AllDigits(fy)
                  /\ FieldOk(fm, 12)
                  /\ FieldOk(fd, 31)
                  /\ DigitsValue(fy) >= 1
                  /\ DigitsValue(fd) <= DaysInMonth(DigitsValue(fy), DigitsValue(fm))
               THEN [ok |-> TRUE,
                     year |-> DigitsValue(fy), month |-> DigitsValue(fm),
                     day |-> DigitsValue(fd), hour |-> 0, minute |-> 0, second |-> 0]
               ELSE ValueError

\* dt.strftime('%a, %d %b %Y %H:%M:%S %z') of a naive datetime: %z is the
\* empty text, so the result ends with the blank before it.
strftime(dt) ==
    DayNames[Weekday(dt.year, dt.month, dt.day) + 1] \o <<44, 32>>
    \o Pad2(dt.day) \o <<32>> \o MonthNames[dt.month] \o <<32>>
    \o Pad4(dt.year) \o <<32>>
    \o Pad2(dt.hour) \o <<58>> \o Pad2(dt.minute) \o <<58>> \o Pad2(dt.second)
    \o <<32>>

\* ------------------------------------------------------------ configuration
\* "https://0819870.xyz/music/nash-spence/"
PODCAST_LINK == <<104, 116, 116, 112, 115, 58, 47, 47, 48, 56, 49, 57, 56, 55,
                  48, 46, 120, 121, 122, 47, 109, 117, 115, 105, 99, 47, 110,
                  97, 115, 104, 45, 115, 112, 101, 110, 99, 101, 47>>
PODCAST_ART == <<108, 111, 103, 111, 46, 106, 112, 103>>        \* "logo.jpg"
EPISODE_ART_DIR == <<99, 111, 118, 101, 114, 115>>              \* "covers"
AUTHOR == <<78, 97, 115, 104, 32, 83, 112, 101, 110, 99, 101>>  \* "Nash Spence"
Mp3Ext == <<46, 109, 112, 51>>                                  \* ".mp3"
JpgExt == <<46, 106, 112, 103>>                                 \* ".jpg"
TmpSuffix == <<95, 116, 109, 112>>                              \* "_tmp"

\* ---------------------------------------------------- the files of the model
CurlyName == <<97, 8217, 46, 109, 112, 51>>      \* "a’.mp3"
StraightName == <<97, 39, 46, 109, 112, 51>>     \* "a'.mp3"
UpperName == <<98, 46, 77, 80, 51>>              \* "b.MP3"
FileNames == <<CurlyName, StraightName, UpperName>>

\* The date tags EasyID3 may hand back: none, the empty text, a year alone,
\* and two full dates (a Saturday in April, a Monday in May).
DateApril == <<50, 48, 50, 51, 45, 48, 52, 45, 48, 49>>   \* "2023-04-01"
DateMay == <<50, 48, 50, 51, 45, 48, 53, 45, 48, 49>>     \* "2023-05-01"
DateYearOnly == <<50, 48, 50, 51>>                         \* "2023"
DateTags == {None, <<>>, DateYearOnly, DateApril, DateMay}

\* The picture types of the APIC frames of a tag container, in the order
\* tags.values() yields them: none, a front cover, a back cover (type 4).
NoPicture == <<>>
FrontOnly == <<FRONT_COVER>>
BackOnly == <<FRONT_COVER + 1>>

\* A file's content as the tag readers see it: unreadable; readable with any
\* of the date tags, with or without a front cover, and neither title nor
\* comment; or readable with a back cover, a title ("S’s") and a comment.
Unreadable(i) ==
    [src |-> FileNames[i], size |-> 1000 * i, readable |-> FALSE, date |-> None,
     apic |-> NoPicture, title |-> None, comment |-> None]

Plain(i, d, a) ==
    [src |-> FileNames[i], size |-> 1000 * i, readable |-> TRUE, date |-> d,
     apic |-> a, title |-> None, comment |-> None]

Titled(i) ==
    [src |-> FileNames[i], size |-> 1000 * i, readable |-> TRUE,
     date |-> DateApril, apic |-> BackOnly, title |-> <<83, 8217, 115>>,
     comment |-> <<99>>]

Contents(i) ==
    {Unreadable(i), Titled(i)}
    \cup {Plain(i, d, a) : d \in DateTags, a \in {NoPicture, FrontOnly}}

\* The file that is no audio file: the channel's artwork.
LogoFile ==
    [src |-> PODCAST_ART, size |-> 1, readable |-> FALSE, date |-> None,
     apic |-> NoPicture, title |-> None, comment |-> None]

\* ------------------------------------------------------------------- state
VARIABLES
    disk,       \* the directory: file name -> content
    covers,     \* the cover cache directory: file name -> the image's origin
    ffmpeg,     \* the external command here: "ok", "fails" or "absent"
    descending, \* the order os.listdir yields names in (fixed per directory)
    clock,      \* seconds the wall clock has advanced
    run,        \* the number of the current run
    pc,         \* "start", "scan", "exited"
    mp3s,       \* build_feed's list of names still to process
    episodes,   \* build_feed's list of (pubDate, info)
    feedXml,    \* the items of feed.xml, or None while it does not exist
    outcome,    \* how the current run ended: "none", "usage", "exception", "ok"
    status,     \* the exit status of the current run (-1 while it runs)
    log,        \* the records the current run has appended to the log file
    calls,      \* history: one record per get_episode_info call of this run
    begin,      \* history: the directory and the cache when this run began
    prev        \* history: the run before this one

vars == <<disk, covers, ffmpeg, descending, clock, run, pc, mp3s, episodes,
          feedXml, outcome, status, log, calls, begin, prev>>

\* ------------------------------------------------------------ ensure_cover
CoverName(mp3_name) == splitext0(mp3_name) \o JpgExt
TempName(mp3_name) == splitext0(mp3_name) \o TmpSuffix

\* The first front-cover APIC of the tags, 0 when there is none.
IsAnyPicture(type) == TRUE

\* isinstance(tag, APIC) and tag.type == 3
IsFrontCover(type) == type = FRONT_COVER

FirstFrontCover(apic) ==
    IF \E i \in 1..Len(apic) : IsFrontCover(apic[i])
    THEN CHOOSE i \in 1..Len(apic) :
            /\ IsFrontCover(apic[i])
            /\ \A j \in 1..(i - 1) : ~IsFrontCover(apic[j])
    ELSE 0

\* ensure_cover(mp3_path, cover_dir) on directory d and cache c: what it
\* returns (ret), the exception that leaves it (raised), the cache after it
\* (covers), the file-system and process operations it made, in order (ops),
\* and the records it logged (log).
ensure_cover(name, d, c, ff) ==
    IF name \notin DOMAIN d
    THEN [ret |-> None, raised |-> "MutagenError", covers |-> c,
          ops |-> <<"ID3">>, log |-> <<>>]
    ELSE IF ~d[name].readable
    THEN [ret |-> None, raised |-> "none", covers |-> c, ops |-> <<"ID3">>,
          log |-> <<"ERROR ID3 error">>]
    ELSE IF CoverName(name) \in DOMAIN c
    THEN [ret |-> CoverName(name), raised |-> "none", covers |-> c,
          ops |-> <<"ID3", "exists">>, log |-> <<>>]
    ELSE IF FirstFrontCover(d[name].apic) = 0
    THEN [ret |-> None, raised |-> "none", covers |-> c,
          ops |-> <<"ID3", "exists">>, log |-> <<"WARNING No APIC cover">>]
    ELSE LET withTemp == [n \in DOMAIN c \cup {TempName(name)} |->
                            IF n = TempName(name) THEN d[name].src ELSE c[n]]
         IN CASE ff = "absent" ->
                   [ret |-> None, raised |-> "FileNotFoundError",
                    covers |-> withTemp,
                    ops |-> <<"ID3", "exists", "write_temp", "ffmpeg">>,
                    log |-> <<>>]
              [] ff = "fails" ->
                   [ret |-> None, raised |-> "none", covers |-> withTemp,
                    ops |-> <<"ID3", "exists", "write_temp", "ffmpeg">>,
                    log |-> <<"ERROR ffmpeg error">>]
              [] OTHER ->
                   [ret |-> CoverName(name), raised |-> "none",
                    covers |-> [n \in (DOMAIN c \ {TempName(name)})
                                       \cup {CoverName(name)} |->
                                  IF n = CoverName(name) THEN d[name].src
                                  ELSE c[n]],
                    ops |-> <<"ID3", "exists", "write_temp", "ffmpeg",
                              "remove_temp">>,
                    log |-> <<"INFO Extracted and resized cover">>]

\* -------------------------------------------------------- get_episode_info
\* datetime.now(): the wall clock, which starts at 2026-11-06 12:00:00.
Now(t) ==
    [year |-> 2026, month |-> 11, day |-> 6, hour |-> 12,
     minute |-> (t \div 60) % 60, second |-> t % 60]

\* os.rename(old, new) within the directory: new is replaced when it exists.
rename(d, old, new) ==
    [n \in (DOMAIN d \ {old}) \cup {new} |-> IF n = new THEN d[old] ELSE d[n]]

\* The publish date of a date tag: lines 103-113.
PubDate(date_tag, t) ==
    IF date_tag # None /\ date_tag # <<>>
    THEN IF strptime(date_tag).ok
         THEN strftime(strptime(date_tag))
         ELSE strftime(Now(t))
    ELSE strftime(Now(t))

\* The warning the date fallback logs: lines 109 and 112.
DateLog(date_tag) ==
    IF date_tag # None /\ date_tag # <<>>
    THEN IF strptime(date_tag).ok THEN <<>> ELSE <<"WARNING Invalid date tag">>
    ELSE <<"WARNING Missing date tag">>

\* Whether the date fallback (datetime.now()) is taken for a date tag.
UsesNow(date_tag) ==
    date_tag = None \/ date_tag = <<>> \/ ~strptime(date_tag).ok

\* get_episode_info(mp3_path, base_url, cover_dir) for the file named f:
\* the info it returns, the exception that leaves it, the directory and the
\* cache after it, the operations it made, in order, and what it logged.
get_episode_info(f, d, c, ff, t) ==
    LET clean_name == clean_apostrophes(f)
        renamed == f # clean_name
        d1 == IF renamed THEN rename(d, f, clean_name) ELSE d
        ops1 == IF renamed THEN <<"rename">> ELSE <<>>
        log1 == IF renamed THEN <<"INFO Renamed file">> ELSE <<>>
    IN IF clean_name \notin DOMAIN d1 \/ ~d1[clean_name].readable
       THEN [raised |-> "MutagenError", info |-> <<>>, disk |-> d1,
             covers |-> c, ops |-> ops1 \o <<"EasyID3">>, log |-> log1,
             tags |-> IF clean_name \in DOMAIN d1 THEN d1[clean_name]
                      ELSE LogoFile,
             hit |-> CoverName(clean_name) \in DOMAIN c]
       ELSE LET tags == d1[clean_name]
                ec == ensure_cover(clean_name, d1, c, ff)
                title == clean_apostrophes(
                            IF tags.title = None THEN splitext0(clean_name)
                            ELSE tags.title)
            IN [raised |-> ec.raised,
                info |-> IF ec.raised # "none" THEN <<>>
                         ELSE [title |-> title,
                               filename |-> clean_name,
                               link |-> PODCAST_LINK \o quote(clean_name),
                               pubDate |-> PubDate(tags.date, t),
                               description |-> IF tags.comment = None THEN <<>>
                                               ELSE tags.comment,
                               cover |-> ec.ret,
                               file_path |-> clean_name],
                disk |-> d1,
                covers |-> ec.covers,
                ops |-> ops1 \o <<"EasyID3", "ID3", "ensure_cover">> \o ec.ops,
                log |-> log1 \o DateLog(tags.date) \o ec.log,
                tags |-> tags,
                hit |-> CoverName(clean_name) \in DOMAIN c]

\* --------------------------------------------------------------- build_feed
IsMp3(name) == EndsWith(Lower(name), Mp3Ext)

\* s with x put before its first element that is greater (sort is stable).
RECURSIVE InsertByKey(_, _)
InsertByKey(s, x) ==
    IF s = <<>> THEN <<x>>
    ELSE IF StrLess(x[1], Head(s)[1]) THEN <<x>> \o s
    ELSE <<Head(s)>> \o InsertByKey(Tail(s), x)

\* episodes.sort(key=lambda x: x[0])
RECURSIVE SortByKey(_)
SortByKey(s) ==
    IF s = <<>> THEN <<>>
    ELSE InsertByKey(SortByKey(SubSeq(s, 1, Len(s) - 1)), s[Len(s)])

\* os.listdir(directory): the names in the directory's order.
RECURSIVE ListNames(_, _)
ListNames(names, desc) ==
    IF names = {} THEN <<>>
    ELSE LET first == CHOOSE n \in names : \A m \in names \ {n} :
                          IF desc THEN StrLess(m, n) ELSE StrLess(n, m)
         IN <<first>> \o ListNames(names \ {first}, desc)

RECURSIVE FilterMp3(_)
FilterMp3(s) ==
    IF s = <<>> THEN <<>>
    ELSE IF IsMp3(Head(s)) THEN <<Head(s)>> \o FilterMp3(Tail(s))
    ELSE FilterMp3(Tail(s))

listdir_mp3(d, desc) == FilterMp3(ListNames(DOMAIN d, desc))

\* One <item> of the channel: lines 154-179.
Item(info, d) ==
    LET enclosure_url == PODCAST_LINK \o quote(info.filename)
    IN [title |-> info.title,
        author |-> AUTHOR,
        link |-> info.link,
        url |-> enclosure_url,
        length |-> IF info.file_path \in DOMAIN d THEN d[info.file_path].size
                   ELSE 0,
        guid |-> enclosure_url,
        pubDate |-> info.pubDate,
        description |-> info.description,
        image |-> IF info.cover # None
                  THEN PODCAST_LINK \o EPISODE_ART_DIR \o <<47>> \o info.cover
                  ELSE None]

\* The warnings of the files whose size cannot be read: lines 160-164.
RECURSIVE SizeLog(_, _)
SizeLog(eps, d) ==
    IF eps = <<>> THEN <<>>
    ELSE (IF Head(eps)[2].file_path \in DOMAIN d THEN <<>>
          ELSE <<"WARNING Could not get file size">>)
         \o SizeLog(Tail(eps), d)

\* The exit status of the script: lines 187-196.
ExitStatusAlwaysZero(how) == IF how = "usage" THEN 1 ELSE 0

ExitStatus(how) == IF how \in {"usage", "exception"} THEN 1 ELSE 0

\* ------------------------------------------------------------ initial states
\* The directories the first run may find: at most MaxFiles of the model's
\* audio files, each with any content, beside the channel's artwork.
Directory(cf) ==
    [n \in {FileNames[i] : i \in DOMAIN cf} \cup {PODCAST_ART} |->
        IF n = PODCAST_ART THEN LogoFile
        ELSE cf[CHOOSE i \in DOMAIN cf : FileNames[i] = n]]

ContentChoices(S) == {cf \in [S -> UNION {Contents(i) : i \in S}] :
                         \A i \in S : cf[i] \in Contents(i)}

InitDirectories ==
    {Directory(cf) : cf \in UNION {ContentChoices(S) :
        S \in {T \in SUBSET (1..Len(FileNames)) : Cardinality(T) <= MaxFiles}}}

\* The cache starts empty or holds a cover an earlier run left for "a'".
StaleCover == [n \in {CoverName(StraightName)} |-> <<>>]
InitCaches == {<<>>, StaleCover}

NoRun == [ran |-> FALSE, outcome |-> "none", items |-> <<>>, calls |-> <<>>,
          covers |-> <<>>]

Init ==
    /\ disk \in InitDirectories
    /\ covers \in InitCaches
    /\ ffmpeg \in {"ok", "fails", "absent"}
    /\ descending \in BOOLEAN
    /\ clock = 0
    /\ run = 1
    /\ pc = "start"
    /\ mp3s = <<>>
    /\ episodes = <<>>
    /\ feedXml = [exists |-> FALSE, items |-> <<>>]
    /\ outcome = "none"
    /\ status = -1
    /\ log = <<>>
    /\ calls = <<>>
    /\ begin = [disk |-> disk, covers |-> covers, feedXml |-> feedXml]
    /\ prev = NoRun

\* ------------------------------------------------------------------ actions
\* The script is started without a directory argument: lines 188-190.
Usage ==
    /\ pc = "start"
    /\ outcome' = "usage"
    /\ status' = ExitStatus("usage")
    /\ pc' = "exited"
    /\ UNCHANGED <<disk, covers, ffmpeg, descending, clock, run, mp3s,
                   episodes, feedXml, log, calls, begin, prev>>

\* build_feed up to its loop: lines 131-145.
StartBuildFeed ==
    /\ pc = "start"
    /\ mp3s' = listdir_mp3(disk, descending)
    /\ episodes' = <<>>
    /\ pc' = "scan"
    /\ UNCHANGED <<disk, covers, ffmpeg, descending, clock, run, feedXml,
                   outcome, status, log, calls, begin, prev>>

\* One round of build_feed's loop, lines 146-149; an exception that leaves
\* get_episode_info leaves build_feed too and ends the script at lines 194-196.
GetEpisode ==
    /\ pc = "scan"
    /\ mp3s # <<>>
    /\ \E f \in {Head(mp3s)} :
       \E r \in {get_episode_info(f, disk, covers, ffmpeg, clock)} :
          /\ disk' = r.disk
          /\ covers' = r.covers
          /\ clock' = clock + 1
          /\ calls' = Append(calls,
                [listed |-> f, name |-> clean_apostrophes(f), ops |-> r.ops,
                 tags |-> r.tags, hit |-> r.hit, raised |-> r.raised,
                 returned |-> r.raised = "none", info |-> r.info])
          /\ IF r.raised = "none"
             THEN /\ episodes' = Append(episodes, <<r.info.pubDate, r.info>>)
                  /\ mp3s' = Tail(mp3s)
                  /\ log' = log \o r.log
                  /\ UNCHANGED <<pc, outcome, status>>
             ELSE /\ pc' = "exited"
                  /\ outcome' = "exception"
                  /\ status' = ExitStatus("exception")
                  /\ log' = log \o r.log \o <<"ERROR Failed to build feed">>
                  /\ UNCHANGED <<episodes, mp3s>>
    /\ UNCHANGED <<ffmpeg, descending, run, feedXml, begin, prev>>

\* The rest of build_feed, lines 151-184, and the script's normal end.
WriteFeed ==
    /\ pc = "scan"
    /\ mp3s = <<>>
    /\ episodes' = SortByKey(episodes)
    /\ feedXml' = [exists |-> TRUE,
                   items |-> [i \in 1..Len(episodes) |->
                                Item(episodes'[i][2], disk)]]
    /\ log' = log \o SizeLog(episodes', disk) \o <<"INFO Wrote feed">>
    /\ outcome' = "ok"
    /\ status' = ExitStatus("ok")
    /\ pc' = "exited"
    /\ UNCHANGED <<disk, covers, ffmpeg, descending, clock, run, mp3s, calls,
                   begin, prev>>

\* The script is run again on the same directory, after a run that was given
\* the directory.
Rerun ==
    /\ pc = "exited"
    /\ outcome # "usage"
    /\ run < MaxRuns
    /\ prev' = [ran |-> TRUE, outcome |-> outcome,
                items |-> IF outcome = "ok" THEN feedXml.items ELSE <<>>,
                calls |-> calls, covers |-> covers]
    /\ run' = run + 1
    /\ pc' = "start"
    /\ outcome' = "none"
    /\ status' = -1
    /\ log' = <<>>
    /\ calls' = <<>>
    /\ mp3s' = <<>>
    /\ episodes' = <<>>
    /\ begin' = [disk |-> disk, covers |-> covers, feedXml |-> feedXml]
    /\ UNCHANGED <<disk, covers, ffmpeg, descending, clock, feedXml>>

Next == Usage \/ StartBuildFeed \/ GetEpisode \/ WriteFeed \/ Rerun

Spec == Init /\ [][Next]_vars

\* ---------------------------------------------------- vocabulary of claims
AudioNames(d) == {n \in DOMAIN d : IsMp3(n)}

UrlOf(name) == PODCAST_LINK \o quote(clean_apostrophes(name))

\* The positions of the feed's items whose enclosure is the file `name`.
ItemsOf(name) == {i \in 1..Len(feedXml.items) : feedXml.items[i].url = UrlOf(name)}

\* This run wrote feed.xml.
FeedWritten == pc = "exited" /\ outcome = "ok" /\ feedXml.exists

\* This run was given a directory and has ended.
RunEnded == pc = "exited" /\ outcome # "usage"

HasFront(apic) == \E i \in 1..Len(apic) : apic[i] = FRONT_COVER

\* The operations of a get_episode_info call that ensure_cover made.
CoverOps(ops) ==
    LET at == CHOOSE i \in 1..Len(ops) : ops[i] = "ensure_cover"
    IN SubSeq(ops, at + 1, Len(ops))

ReachedCover(c) == \E i \in 1..Len(c.ops) : c.ops[i] = "ensure_cover"

Count(ops, op) == Cardinality({i \in 1..Len(ops) : ops[i] = op})

\* The day a valid date tag names, as a day number.
DayOf(date_tag) ==
    LET dt == strptime(date_tag) IN ToOrdinal(dt.year, dt.month, dt.day)

\* ------------------------------------------------------------------ claims

\* C1: when a file's tag container cannot be opened or parsed, the run still
\* writes the feed: the unparsable file has no entry, every other audio file
\* of the directory has exactly one.
C1_UnparsableFileIsSkipped ==
    (RunEnded /\ \E n \in AudioNames(begin.disk) : ~begin.disk[n].readable)
    => /\ FeedWritten
       /\ \A n \in AudioNames(begin.disk) :
            Cardinality(ItemsOf(n)) = IF begin.disk[n].readable THEN 1 ELSE 0

\* C2: when every date tag is a valid YYYY-MM-DD date, the written feed lists
\* the entries in ascending chronological order of those dates: the file with
\* the earlier date tag comes earlier.
C2_FeedOrderIsChronological ==
    (FeedWritten /\ \A k \in 1..Len(calls) : ~UsesNow(calls[k].tags.date))
    => \A i, j \in 1..Len(episodes) :
          DayOf(disk[episodes[i][2].file_path].date)
            < DayOf(disk[episodes[j][2].file_path].date)
          => i < j

\* C3: ensure_cover never lets a failure reach its caller: whatever the
\* embedded artwork and the external command do, the call returns, the
\* episode is produced and a run over readable files writes the feed.
C3_CoverFailureNeverPropagates ==
    /\ \A k \in 1..Len(calls) : ReachedCover(calls[k]) => calls[k].returned
    /\ (RunEnded /\ \A n \in AudioNames(begin.disk) : begin.disk[n].readable)
       => FeedWritten

\* C4: a readable file whose date tag is absent, empty or not a strict
\* YYYY-MM-DD date does not fail the run: it has an entry in the written
\* feed, with a publish date that is not empty.
C4_BadDateStillGetsEntry ==
    RunEnded
    => \A n \in AudioNames(begin.disk) :
          (begin.disk[n].readable /\ UsesNow(begin.disk[n].date))
          => /\ FeedWritten
             /\ ItemsOf(n) # {}
             /\ \A i \in ItemsOf(n) : feedXml.items[i].pubDate # <<>>

\* C5: a second run on a directory nothing else changed, with no date
\* fallback in either run, yields the same feed document as the first,
\* renames nothing, runs the external command for no file that has a cache
\* entry and leaves the set of files in the cache as it found it.
NoFallback(cs) ==
    \A k \in 1..Len(cs) : cs[k].tags.readable => ~UsesNow(cs[k].tags.date)

C5_SecondRunIsIdempotent ==
    (RunEnded /\ prev.ran /\ NoFallback(prev.calls) /\ NoFallback(calls))
    => /\ outcome = prev.outcome
       /\ (outcome = "ok" => feedXml.items = prev.items)
       /\ \A k \in 1..Len(calls) :
            /\ Count(calls[k].ops, "rename") = 0
            /\ calls[k].hit => Count(calls[k].ops, "ffmpeg") = 0
       /\ DOMAIN covers = DOMAIN begin.covers

\* C6: a file whose name holds a curly apostrophe is renamed exactly once,
\* before any tag read; the episode's fileName is the straight-apostrophe
\* name, its sourcePath is a file on disk under that name, link and
\* enclosure URL are the base link plus the percent-encoded straight name;
\* after a completed run no audio file of the directory has a curly name.
QuotedStraightName == <<97, 37, 50, 55, 46, 109, 112, 51>>     \* "a%27.mp3"

C6_NamesAreNormalized ==
    /\ \A k \in 1..Len(calls) :
         /\ Count(calls[k].ops, "rename")
              = IF HasCurly(calls[k].listed) THEN 1 ELSE 0
         /\ HasCurly(calls[k].listed) => calls[k].ops[1] = "rename"
         /\ calls[k].returned =>
              /\ ~HasCurly(calls[k].info.filename)
              /\ calls[k].info.file_path = calls[k].info.filename
              /\ calls[k].info.file_path \in DOMAIN disk
              /\ calls[k].listed \in {CurlyName, StraightName} =>
                   /\ calls[k].info.filename = StraightName
                   /\ calls[k].info.link = PODCAST_LINK \o QuotedStraightName
    /\ FeedWritten =>
         /\ \A n \in AudioNames(disk) : ~HasCurly(n)
         /\ \A k \in 1..Len(calls) :
              \E i \in 1..Len(feedXml.items) :
                 /\ feedXml.items[i].link = calls[k].info.link
                 /\ feedXml.items[i].url = calls[k].info.link
                 /\ feedXml.items[i].guid = calls[k].info.link

C6_Witness ==
    /\ FeedWritten
    /\ \E k \in 1..Len(calls) : calls[k].listed = CurlyName
    /\ \E i \in 1..Len(feedXml.items) :
          feedXml.items[i].url = PODCAST_LINK \o QuotedStraightName

\* C7 as claimed: a file with an embedded front cover, when the external
\* command succeeds, ends the run with the cache entry <base>.jpg and an item
\* whose image references it; a file with no embedded front cover ends the
\* run with no cover entry and its item has no image.
CoverUrl(name) == PODCAST_LINK \o EPISODE_ART_DIR \o <<47>> \o CoverName(name)

HasCoverAndImage(c) ==
    /\ CoverName(c.name) \in DOMAIN covers
    /\ \E i \in 1..Len(feedXml.items) :
          /\ feedXml.items[i] = Item(c.info, disk)
          /\ feedXml.items[i].image = CoverUrl(c.name)

HasNoCoverNoImage(c) ==
    /\ CoverName(c.name) \notin DOMAIN covers
    /\ \E i \in 1..Len(feedXml.items) :
          /\ feedXml.items[i] = Item(c.info, disk)
          /\ feedXml.items[i].image = None

C7_CoverFollowsArtwork ==
    FeedWritten
    => \A k \in 1..Len(calls) :
          /\ (HasFront(calls[k].tags.apic) /\ ffmpeg = "ok")
             => HasCoverAndImage(calls[k])
          /\ ~HasFront(calls[k].tags.apic) => HasNoCoverNoImage(calls[k])

\* C7 as amended: the second half holds of a file with no embedded front
\* cover for which the cache holds no <base>.jpg when it is processed:
\* processing it writes nothing to the cache and its item has no image.
AddsNoCoverNoImage(c) ==
    /\ Count(c.ops, "write_temp") = 0
    /\ Count(c.ops, "ffmpeg") = 0
    /\ c.info.cover = None
    /\ \E i \in 1..Len(feedXml.items) :
          /\ feedXml.items[i] = Item(c.info, disk)
          /\ feedXml.items[i].image = None

C7_CoverFollowsArtworkUnlessCached ==
    FeedWritten
    => \A k \in 1..Len(calls) :
          /\ (HasFront(calls[k].tags.apic) /\ ffmpeg = "ok")
             => HasCoverAndImage(calls[k])
          /\ (~HasFront(calls[k].tags.apic) /\ ~calls[k].hit)
             => AddsNoCoverNoImage(calls[k])

C7_Witness ==
    /\ FeedWritten
    /\ ffmpeg = "ok"
    /\ \E k \in 1..Len(calls) :
          /\ HasFront(calls[k].tags.apic)
          /\ ~calls[k].hit
          /\ Count(calls[k].ops, "ffmpeg") = 1
    /\ \E k \in 1..Len(calls) :
          /\ calls[k].tags.apic = BackOnly
          /\ ~calls[k].hit

C9_CacheHitOnlyChecksExistence ==
    \A k \in 1..Len(calls) :
       (ReachedCover(calls[k]) /\ calls[k].hit)
       => /\ CoverOps(calls[k].ops) = <<"exists">>
          /\ calls[k].returned
          /\ calls[k].info.cover = CoverName(calls[k].name)
          /\ covers[CoverName(calls[k].name)]
               = begin.covers[CoverName(calls[k].name)]

\* C10: in every feed the run writes, each audio file on disk at the end of
\* the run has exactly one entry, and no two entries have the same guid.
C10_OneEntryPerFile ==
    FeedWritten
    => /\ \A n \in AudioNames(disk) : Cardinality(ItemsOf(n)) = 1
       /\ \A i, j \in 1..Len(feedXml.items) :
             feedXml.items[i].guid = feedXml.items[j].guid => i = j

====
